---- MODULE Spec2Model ----
(***************************************************************************)
(* apod-wallpaper (src/index.js): one run of the script.                   *)
(*                                                                         *)
(* Time is counted in whole hours since 1970-01-01T00:00Z: an instant of   *)
(* the source (milliseconds) is the hour it falls in, so hh:59:59.999 is   *)
(* hour hh.  The local time zone is a whole number of hours tz, local =    *)
(* UTC + tz.  Strings the code takes apart (the mode argument, the paths)  *)
(* are sequences of one-character strings.                                 *)
(***************************************************************************)
EXTENDS Integers, Sequences, FiniteSets, TLC

VARIABLES
    mode,            \* argv[2]
    now,             \* the instant new Date() gives during the run
    tz,              \* local time zone offset, hours east of UTC
    pc,              \* where the run stands
    ret,             \* who awaits getImagePathFromPage: "main", "loop" (or "none")
    date,            \* main: let date
    imagePath,       \* main: let imagePath
    randomTime,      \* getRandomApodDate: let randomTime
    redrawn,         \* the while loop of getRandomApodDate drew again in this call
    randomDate,      \* getRandomApodImagePathAndDate: let randomDate
    loopImagePath,   \* getRandomApodImagePathAndDate: let imagePath
    page,            \* the page path handed to getImagePathFromPage
    pageDate,        \* the date getPageNameForDate was last called with
    fetched,         \* the page path apod.get was last called with
    html,            \* the fetched page, as its opening tags in document order
    pos,             \* the next tag the parser delivers
    aCount,          \* findImagePath: let aCount
    found,           \* findImagePath: let imagePath
    resolved,        \* the value findImagePath's promise resolved with
    imageFile,       \* saveImage: const imageFile
    fetches,         \* number of apod.get calls made
    scans,           \* number of findImagePath calls made
    failure,         \* the stage that threw, or "none"
    downloadStarted, \* downloadImageFile was called
    saved,           \* the image was written
    wallpaperCalled, \* setWallpaper was called
    stdout,          \* the last of 'Done' / 'No image found.' written by console.info
    stderr,          \* console.error was called
    exitCode         \* the exit code of the process

vars == <<mode, now, tz, pc, ret, date, imagePath, randomTime, redrawn, randomDate,
          loopImagePath, page, pageDate, fetched, html, pos, aCount, found, resolved,
          imageFile, fetches, scans, failure, downloadStarted, saved,
          wallpaperCalled, stdout, stderr, exitCode>>

runVars == <<mode, now, tz>>
parserVars == <<fetched, html, pos, aCount, found, resolved>>
outVars == <<imageFile, failure, downloadStarted, saved, wallpaperCalled,
             stdout, stderr, exitCode>>

----------------------------------------------------------------------------
(* Bounds of the model *)

MaxTags == 3        \* longest page, in opening tags, given to findImagePath alone
MaxFetches == 2     \* pages a run fetches before the random loop is cut off
Spread == 2         \* random instants are drawn within Spread hours of a landmark

----------------------------------------------------------------------------
(* Values *)

Undefined == <<"undefined">>      \* JavaScript's undefined, where a string may stand
NoDate == -1                      \* main's date while undefined
Pending == <<"pending">>          \* a promise not yet resolved

Str_random == <<"r","a","n","d","o","m">>
Str_r == <<"r">>
Str_yesterday == <<"y","e","s","t","e","r","d","a","y">>
Str_y == <<"y">>
apodToday == [name |-> "astropix.html"]
NoPage == [name |-> "undefined"]          \* no page path yet
NoFile == [name |-> "undefined"]          \* no image file name yet

Digits == {"0","1","2","3","4","5","6","7","8","9"}

DigitVal(c) ==
    CASE c = "0" -> 0 [] c = "1" -> 1 [] c = "2" -> 2 [] c = "3" -> 3
      [] c = "4" -> 4 [] c = "5" -> 5 [] c = "6" -> 6 [] c = "7" -> 7
      [] c = "8" -> 8 [] c = "9" -> 9

----------------------------------------------------------------------------
(* Date: the proleptic Gregorian calendar of JavaScript's Date *)

\* days from 1970-01-01 to y-m-d, m in 1..12
DaysFromCivil(y, m, d) ==
    LET yy  == IF m <= 2 THEN y - 1 ELSE y
        era == yy \div 400
        yoe == yy - era * 400
        mp  == (m + 9) % 12
        doy == (153 * mp + 2) \div 5 + d - 1
        doe == yoe * 365 + yoe \div 4 - yoe \div 100 + doy
    IN  era * 146097 + doe - 719468

\* the calendar date of day z (days since 1970-01-01)
CivilFromDays(z0) ==
    LET z   == z0 + 719468
        era == z \div 146097
        doe == z - era * 146097
        yoe == (doe - doe \div 1460 + doe \div 36524 - doe \div 146096) \div 365
        doy == doe - (365 * yoe + yoe \div 4 - yoe \div 100)
        mp  == (5 * doy + 2) \div 153
        d   == doy - (153 * mp + 2) \div 5 + 1
        m   == IF mp < 10 THEN mp + 3 ELSE mp - 9
        y   == yoe + era * 400 + (IF m <= 2 THEN 1 ELSE 0)
    IN  [year |-> y, month |-> m, day |-> d]

\* new Date(year, monthIndex, day, hours, 59, 59, 999) and new Date(year, monthIndex, day):
\* the fields are local time
NewDate(year, monthIndex, day, hours, zone) ==
    DaysFromCivil(year, monthIndex + 1, day) * 24 + hours - zone

\* getFullYear / getMonth + 1 / getDate: the local calendar date of instant t
LocalFields(t, zone) == CivilFromDays((t + zone) \div 24)

\* getUTCFullYear / getUTCMonth + 1 / getUTCDate, and the date toISOString prints
UTCFields(t) == CivilFromDays(t \div 24)

----------------------------------------------------------------------------
(* Pure functions of the script *)

\* the index of the last x in s, 0 when there is none
RECURSIVE LastIndexOf(_, _)
LastIndexOf(s, x) ==
    IF s = <<>> THEN 0
    ELSE IF s[Len(s)] = x THEN Len(s)
    ELSE LastIndexOf(SubSeq(s, 1, Len(s) - 1), x)

\* node:path extname
ExtName(somePath) ==
    LET slash == LastIndexOf(somePath, "/")
        base  == SubSeq(somePath, slash + 1, Len(somePath))
        dot   == LastIndexOf(base, ".")
    IN  IF dot <= 1 \/ base = <<".", ".">> THEN <<>>
        ELSE SubSeq(base, dot, Len(base))

ImageFormats == { <<".","j","p","g">>, <<".","g","i","f">>, <<".","p","n","g">> }

\* isImagePath without the list of formats: every extension passes
IsImagePath_AnyExt(somePath) ==
    IF somePath # Undefined /\ somePath # <<>>
    THEN ExtName(somePath) # <<>>
    ELSE FALSE

IsImagePath(somePath) ==
    IF somePath # Undefined /\ somePath # <<>>
    THEN ExtName(somePath) \in ImageFormats
    ELSE FALSE

\* the digits s starts with, read as a decimal number after acc
RECURSIVE ParseDigits(_, _)
ParseDigits(s, acc) ==
    IF s # <<>> /\ s[1] \in Digits
    THEN ParseDigits(Tail(s), acc * 10 + DigitVal(s[1]))
    ELSE acc

RECURSIVE TrimStart(_)
TrimStart(s) == IF s # <<>> /\ s[1] = " " THEN TrimStart(Tail(s)) ELSE s

\* Number.parseInt(mode, 10): [nan |-> TRUE] is NaN
ParseInt(str) ==
    IF str = Undefined THEN [nan |-> TRUE, val |-> 0]
    ELSE
    LET t    == TrimStart(str)
        neg  == t # <<>> /\ t[1] = "-"
        body == IF t # <<>> /\ t[1] \in {"-", "+"} THEN Tail(t) ELSE t
    IN  IF body = <<>> \/ body[1] \notin Digits
        THEN [nan |-> TRUE, val |-> 0]
        ELSE [nan |-> FALSE,
              val |-> IF neg THEN 0 - ParseDigits(body, 0) ELSE ParseDigits(body, 0)]

\* Number.isInteger
IsInteger(n) == ~n.nan

\* getDateDaysAgo: setUTCDate(getUTCDate() - days) moves the instant by whole UTC days
GetDateDaysAgo(days, t) == t - 24 * days

\* getPageNameForDate: ap{YY}{MM}{DD}.html, each field as its two-digit number
GetPageNameForDate(d, zone) ==
    LET f == LocalFields(d, zone)
    IN  [year |-> f.year % 100, month |-> f.month, day |-> f.day]

\* saveImage: join('download', `apod-${toISOString().slice(0, 10)}${format}`)
ImageFileName(somePath, dateForName) ==
    LET f == UTCFields(dateForName)
    IN  [year |-> f.year, month |-> f.month, day |-> f.day, format |-> ExtName(somePath)]

\* getRandomApodDate: min, max and the missing range
RandomMin(zone) == NewDate(1995, 5, 16, 0, zone)
RandomMax(t, zone) ==
    LET u == UTCFields(t)
    IN  NewDate(u.year, u.month - 1, u.day, 18, zone) - 5
MissingMin(zone) == NewDate(1995, 5, 17, 0, zone)
MissingMax(zone) == NewDate(1995, 5, 19, 23, zone)

\* the range test of line 130 with || for &&
InMissing_Or(t, zone) == t >= MissingMin(zone) \/ t <= MissingMax(zone)

InMissing(t, zone) == t >= MissingMin(zone) /\ t <= MissingMax(zone)

\* Math.round(min + Math.random() * (max - min)): a draw can give every instant of
\* min..max; the model keeps those within Spread hours of an end of the range or
\* of the missing range
RandomTimes(t, zone) ==
    LET min == RandomMin(zone)
        max == RandomMax(t, zone)
        near(l) == { x \in (l - Spread)..(l + Spread) : min <= x /\ x <= max }
    IN  near(min) \cup near(MissingMin(zone)) \cup near(MissingMax(zone)) \cup near(max)

----------------------------------------------------------------------------
(* Inputs *)

Modes == { Str_random, Str_r, Str_yesterday, Str_y,
           <<"3">>, <<"-","1">>, <<"3","x">>, <<" ","2">>, <<"x","3">>,
           <<"t","o","d","a","y">>, <<>>, Undefined }

NowDay == DaysFromCivil(2025, 1, 1)
Nows == { NowDay * 24 + 1, NowDay * 24 + 12, NowDay * 24 + 22 }
Zones == { -5, 0, 9 }

P_html == <<"x",".","h","t","m","l">>
P_jpg  == <<"i","/","a",".","j","p","g">>
P_png  == <<"b",".","p","n","g">>
P_gif  == <<"c",".","g","i","f">>
P_jpeg == <<"d",".","j","p","e","g">>

A(href) == [name |-> "a", href |-> href]
Link(href) == [name |-> "link", href |-> href]

\* pages the site may answer with
Pages == { <<>>,
           <<A(P_html)>>,
           <<A(P_html), A(P_jpg)>>,
           <<A(P_html), Link(P_gif), A(P_png), A(P_html)>>,
           <<A(P_html), A(P_jpeg)>>,
           <<A(P_html), A(Undefined)>> }

\* opening tags of the pages given to findImagePath alone
Tags == { A(P_jpg), A(P_html), A(Undefined), Link(P_png) }

RECURSIVE SeqsUpTo(_, _)
SeqsUpTo(S, n) ==
    IF n = 0 THEN { <<>> }
    ELSE LET shorter == SeqsUpTo(S, n - 1)
         IN  shorter \cup { Append(s, x) : s \in shorter, x \in S }

----------------------------------------------------------------------------
(* The run *)

Init ==
    /\ mode \in Modes
    /\ now \in Nows
    /\ tz \in Zones
    /\ pc = "main"
    /\ ret = "none"
    /\ date = NoDate
    /\ imagePath = Undefined
    /\ randomTime = NoDate
    /\ redrawn = FALSE
    /\ randomDate = NoDate
    /\ loopImagePath = Undefined
    /\ page = NoPage
    /\ pageDate = NoDate
    /\ fetched = NoPage
    /\ html = <<>>
    /\ pos = 0
    /\ aCount = 0
    /\ found = Undefined
    /\ resolved = Pending
    /\ imageFile = NoFile
    /\ fetches = 0
    /\ scans = 0
    /\ failure = "none"
    /\ downloadStarted = FALSE
    /\ saved = FALSE
    /\ wallpaperCalled = FALSE
    /\ stdout = ""
    /\ stderr = FALSE
    /\ exitCode = 0

modeAsNumber == ParseInt(mode)

\* main, lines 41-42: the random mode enters the do-while loop
MainRandom ==
    /\ pc = "main"
    /\ mode = Str_random \/ mode = Str_r
    /\ pc' = "draw"
    /\ UNCHANGED <<runVars, ret, date, imagePath, randomTime, redrawn, randomDate,
                   loopImagePath, page, pageDate, parserVars, fetches, scans, outVars>>

\* main, lines 43-46, with getImagePathForDate up to the fetch
MainYesterday ==
    /\ pc = "main"
    /\ ~(mode = Str_random \/ mode = Str_r)
    /\ mode = Str_yesterday \/ mode = Str_y
    /\ date' = GetDateDaysAgo(1, now)
    /\ pageDate' = date'
    /\ page' = GetPageNameForDate(date', tz)
    /\ ret' = "main"
    /\ pc' = "fetch"
    /\ UNCHANGED <<runVars, imagePath, randomTime, redrawn, randomDate, loopImagePath,
                   parserVars, fetches, scans, outVars>>

\* main, lines 47-50
MainDaysAgo ==
    /\ pc = "main"
    /\ ~(mode = Str_random \/ mode = Str_r)
    /\ ~(mode = Str_yesterday \/ mode = Str_y)
    /\ IsInteger(modeAsNumber)
    /\ date' = GetDateDaysAgo(modeAsNumber.val, now)
    /\ pageDate' = date'
    /\ page' = GetPageNameForDate(date', tz)
    /\ ret' = "main"
    /\ pc' = "fetch"
    /\ UNCHANGED <<runVars, imagePath, randomTime, redrawn, randomDate, loopImagePath,
                   parserVars, fetches, scans, outVars>>

\* main, lines 51-53
MainToday ==
    /\ pc = "main"
    /\ ~(mode = Str_random \/ mode = Str_r)
    /\ ~(mode = Str_yesterday \/ mode = Str_y)
    /\ ~IsInteger(modeAsNumber)
    /\ page' = apodToday
    /\ ret' = "main"
    /\ pc' = "fetch"
    /\ UNCHANGED <<runVars, date, imagePath, randomTime, redrawn, randomDate, loopImagePath,
                   pageDate, parserVars, fetches, scans, outVars>>

\* getRandomApodDate, lines 111-120: the first draw
GetRandomApodDate ==
    /\ pc = "draw"
    /\ fetches < MaxFetches
    /\ randomTime' \in RandomTimes(now, tz)
    /\ redrawn' = FALSE
    /\ pc' = "while"
    /\ UNCHANGED <<runVars, ret, date, imagePath, randomDate, loopImagePath, page,
                   pageDate, parserVars, fetches, scans, outVars>>

\* getRandomApodDate, lines 130-132: a draw in the missing range is made again
RandomRedraw ==
    /\ pc = "while"
    /\ InMissing(randomTime, tz)
    /\ randomTime' \in RandomTimes(now, tz)
    /\ redrawn' = TRUE
    /\ UNCHANGED <<runVars, pc, ret, date, imagePath, randomDate, loopImagePath, page,
                   pageDate, parserVars, fetches, scans, outVars>>

\* a redraw that leaves the missing range
RedrawOutside == RandomRedraw /\ ~InMissing(randomTime', tz)

\* getRandomApodDate, line 135, and lines 69-70 with getImagePathForDate up to the fetch
RandomReturn ==
    /\ pc = "while"
    /\ ~InMissing(randomTime, tz)
    /\ randomDate' = randomTime
    /\ pageDate' = randomDate'
    /\ page' = GetPageNameForDate(randomDate', tz)
    /\ ret' = "loop"
    /\ pc' = "fetch"
    /\ UNCHANGED <<runVars, date, imagePath, randomTime, redrawn, loopImagePath,
                   parserVars, fetches, scans, outVars>>

\* getImagePathFromPage, line 78 answered, and findImagePath up to parser.write
FetchOk ==
    /\ pc = "fetch"
    /\ fetches' = fetches + 1
    /\ scans' = scans + 1
    /\ fetched' = page
    /\ html' \in Pages
    /\ pos' = 1
    /\ aCount' = 0
    /\ found' = Undefined
    /\ resolved' = Pending
    /\ pc' = "parse"
    /\ UNCHANGED <<runVars, ret, date, imagePath, randomTime, redrawn, randomDate,
                   loopImagePath, page, pageDate, outVars>>

\* a failed fetch caught inside the random loop, which then draws again
FetchFail_Retry ==
    /\ pc = "fetch"
    /\ fetches' = fetches + 1
    /\ fetched' = page
    /\ failure' = "fetch"
    /\ pc' = IF ret = "loop" THEN "draw" ELSE "catch"
    /\ UNCHANGED <<runVars, ret, date, imagePath, randomTime, redrawn, randomDate,
                   loopImagePath, page, pageDate, html, pos, aCount, found, resolved,
                   scans, imageFile,
                   downloadStarted, saved, wallpaperCalled, stdout, stderr, exitCode>>

\* getImagePathFromPage, line 78 throwing (a response that is not 2xx, a network
\* error): nothing between it and line 204 catches
FetchFail ==
    /\ pc = "fetch"
    /\ fetches' = fetches + 1
    /\ fetched' = page
    /\ failure' = "fetch"
    /\ pc' = "catch"
    /\ UNCHANGED <<runVars, ret, date, imagePath, randomTime, redrawn, randomDate,
                   loopImagePath, page, pageDate, html, pos, aCount, found, resolved,
                   scans, imageFile,
                   downloadStarted, saved, wallpaperCalled, stdout, stderr, exitCode>>

\* onopentag with aCount >= 2 for aCount === 2: the last anchor wins
OnOpenTag_LastWins ==
    /\ pc = "parse"
    /\ pos <= Len(html)
    /\ IF html[pos].name = "a"
       THEN /\ aCount' = aCount + 1
            /\ found' = IF aCount' >= 2 THEN html[pos].href ELSE found
       ELSE UNCHANGED <<aCount, found>>
    /\ pos' = pos + 1
    /\ UNCHANGED <<runVars, pc, ret, date, imagePath, randomTime, redrawn, randomDate,
                   loopImagePath, page, pageDate, fetched, html, resolved, fetches,
                   scans, outVars>>

\* findImagePath, lines 152-159
OnOpenTag ==
    /\ pc = "parse"
    /\ pos <= Len(html)
    /\ IF html[pos].name = "a"
       THEN /\ aCount' = aCount + 1
            /\ found' = IF aCount' = 2 THEN html[pos].href ELSE found
       ELSE UNCHANGED <<aCount, found>>
    /\ pos' = pos + 1
    /\ UNCHANGED <<runVars, pc, ret, date, imagePath, randomTime, redrawn, randomDate,
                   loopImagePath, page, pageDate, fetched, html, resolved, fetches,
                   scans, outVars>>

\* findImagePath, lines 160-162, and the assignment awaiting it (line 70, 46, 50 or 53)
OnEnd ==
    /\ pc = "parse"
    /\ pos > Len(html)
    /\ resolved' = found
    /\ CASE ret = "loop" -> /\ loopImagePath' = found
                            /\ pc' = "until"
                            /\ UNCHANGED imagePath
         [] ret = "main" -> /\ imagePath' = found
                            /\ pc' = "check"
                            /\ UNCHANGED loopImagePath
         [] OTHER        -> /\ pc' = "returned"
                            /\ UNCHANGED <<imagePath, loopImagePath>>
    /\ UNCHANGED <<runVars, ret, date, randomTime, redrawn, randomDate, page, pageDate,
                   fetched, html, pos, aCount, found, fetches, scans, outVars>>

\* getRandomApodImagePathAndDate, line 71 true: another iteration
LoopAgain ==
    /\ pc = "until"
    /\ ~IsImagePath(loopImagePath)
    /\ pc' = "draw"
    /\ UNCHANGED <<runVars, ret, date, imagePath, randomTime, redrawn, randomDate,
                   loopImagePath, page, pageDate, parserVars, fetches, scans, outVars>>

\* the loop left after one iteration, whatever it found
LoopReturn_Once ==
    /\ pc = "until"
    /\ imagePath' = loopImagePath
    /\ date' = randomDate
    /\ pc' = "check"
    /\ UNCHANGED <<runVars, ret, randomTime, redrawn, randomDate, loopImagePath, page,
                   pageDate, parserVars, fetches, scans, outVars>>

\* getRandomApodImagePathAndDate, line 71 false and line 73, assigned at line 42
LoopReturn ==
    /\ pc = "until"
    /\ IsImagePath(loopImagePath)
    /\ imagePath' = loopImagePath
    /\ date' = randomDate
    /\ pc' = "check"
    /\ UNCHANGED <<runVars, ret, randomTime, redrawn, randomDate, loopImagePath, page,
                   pageDate, parserVars, fetches, scans, outVars>>

\* main, lines 60-61
MainNoImage ==
    /\ pc = "check"
    /\ ~IsImagePath(imagePath)
    /\ stdout' = "No image found."
    /\ pc' = "exit"
    /\ UNCHANGED <<runVars, ret, date, imagePath, randomTime, redrawn, randomDate,
                   loopImagePath, page, pageDate, parserVars, fetches, scans,
                   imageFile, failure, downloadStarted, saved, wallpaperCalled,
                   stderr, exitCode>>

\* main, lines 56-57, and saveImage, lines 172-175
SaveImage ==
    /\ pc = "check"
    /\ IsImagePath(imagePath)
    /\ imageFile' = ImageFileName(imagePath, IF date = NoDate THEN now ELSE date)
    /\ pc' = "mkdir"
    /\ UNCHANGED <<runVars, ret, date, imagePath, randomTime, redrawn, randomDate,
                   loopImagePath, page, pageDate, parserVars, fetches, scans,
                   failure, downloadStarted, saved, wallpaperCalled, stdout,
                   stderr, exitCode>>

\* saveImage, line 176 throwing
MkdirFail ==
    /\ pc = "mkdir"
    /\ failure' = "storage"
    /\ pc' = "catch"
    /\ UNCHANGED <<runVars, ret, date, imagePath, randomTime, redrawn, randomDate,
                   loopImagePath, page, pageDate, parserVars, fetches, scans,
                   imageFile, downloadStarted, saved, wallpaperCalled, stdout,
                   stderr, exitCode>>

\* saveImage, lines 176-177, and downloadImageFile, lines 182-194
DownloadOk ==
    /\ pc = "mkdir"
    /\ downloadStarted' = TRUE
    /\ saved' = TRUE
    /\ pc' = "wallpaper"
    /\ UNCHANGED <<runVars, ret, date, imagePath, randomTime, redrawn, randomDate,
                   loopImagePath, page, pageDate, parserVars, fetches, scans,
                   imageFile, failure, wallpaperCalled, stdout, stderr, exitCode>>

\* downloadImageFile, line 191 or 193 throwing
DownloadFail ==
    /\ pc = "mkdir"
    /\ downloadStarted' = TRUE
    /\ failure' = "download"
    /\ pc' = "catch"
    /\ UNCHANGED <<runVars, ret, date, imagePath, randomTime, redrawn, randomDate,
                   loopImagePath, page, pageDate, parserVars, fetches, scans,
                   imageFile, saved, wallpaperCalled, stdout, stderr, exitCode>>

\* main, lines 58-59, and setImageAsWallpaper
SetWallpaperOk ==
    /\ pc = "wallpaper"
    /\ wallpaperCalled' = TRUE
    /\ stdout' = "Done"
    /\ pc' = "exit"
    /\ UNCHANGED <<runVars, ret, date, imagePath, randomTime, redrawn, randomDate,
                   loopImagePath, page, pageDate, parserVars, fetches, scans,
                   imageFile, failure, downloadStarted, saved, stderr, exitCode>>

\* setImageAsWallpaper, line 199 throwing
SetWallpaperFail ==
    /\ pc = "wallpaper"
    /\ wallpaperCalled' = TRUE
    /\ failure' = "wallpaper"
    /\ pc' = "catch"
    /\ UNCHANGED <<runVars, ret, date, imagePath, randomTime, redrawn, randomDate,
                   loopImagePath, page, pageDate, parserVars, fetches, scans,
                   imageFile, downloadStarted, saved, stdout, stderr, exitCode>>

\* lines 204-206: the error is logged; nothing sets an exit code and the module ends
TopLevelCatch ==
    /\ pc = "catch"
    /\ stderr' = TRUE
    /\ pc' = "exit"
    /\ UNCHANGED <<runVars, ret, date, imagePath, randomTime, redrawn, randomDate,
                   loopImagePath, page, pageDate, parserVars, fetches, scans,
                   imageFile, failure, downloadStarted, saved, wallpaperCalled,
                   stdout, exitCode>>

Next ==
    \/ MainRandom
    \/ MainYesterday
    \/ MainDaysAgo
    \/ MainToday
    \/ GetRandomApodDate
    \/ RandomRedraw
    \/ RandomReturn
    \/ FetchOk
    \/ FetchFail
    \/ OnOpenTag
    \/ OnEnd
    \/ LoopAgain
    \/ LoopReturn
    \/ MainNoImage
    \/ SaveImage
    \/ MkdirFail
    \/ DownloadOk
    \/ DownloadFail
    \/ SetWallpaperOk
    \/ SetWallpaperFail
    \/ TopLevelCatch

Spec == Init /\ [][Next]_vars

\* findImagePath alone, on every page of at most MaxTags opening tags
InitFind ==
    /\ mode = Undefined
    /\ now = NowDay * 24
    /\ tz = 0
    /\ pc = "parse"
    /\ ret = "none"
    /\ date = NoDate
    /\ imagePath = Undefined
    /\ randomTime = NoDate
    /\ redrawn = FALSE
    /\ randomDate = NoDate
    /\ loopImagePath = Undefined
    /\ page = NoPage
    /\ pageDate = NoDate
    /\ fetched = NoPage
    /\ html \in SeqsUpTo(Tags, MaxTags)
    /\ pos = 1
    /\ aCount = 0
    /\ found = Undefined
    /\ resolved = Pending
    /\ imageFile = NoFile
    /\ fetches = 0
    /\ scans = 1
    /\ failure = "none"
    /\ downloadStarted = FALSE
    /\ saved = FALSE
    /\ wallpaperCalled = FALSE
    /\ stdout = ""
    /\ stderr = FALSE
    /\ exitCode = 0

NextFind == OnOpenTag \/ OnEnd

SpecFind == InitFind /\ [][NextFind]_vars

\* getRandomApodDate alone, at every instant and in every zone of the model
InitRand ==
    /\ mode = Str_random
    /\ now \in Nows
    /\ tz \in Zones
    /\ pc = "draw"
    /\ ret = "none"
    /\ date = NoDate
    /\ imagePath = Undefined
    /\ randomTime = NoDate
    /\ redrawn = FALSE
    /\ randomDate = NoDate
    /\ loopImagePath = Undefined
    /\ page = NoPage
    /\ pageDate = NoDate
    /\ fetched = NoPage
    /\ html = <<>>
    /\ pos = 0
    /\ aCount = 0
    /\ found = Undefined
    /\ resolved = Pending
    /\ imageFile = NoFile
    /\ fetches = 0
    /\ scans = 0
    /\ failure = "none"
    /\ downloadStarted = FALSE
    /\ saved = FALSE
    /\ wallpaperCalled = FALSE
    /\ stdout = ""
    /\ stderr = FALSE
    /\ exitCode = 0

NextRand == GetRandomApodDate \/ RandomRedraw \/ RandomReturn

SpecRand == InitRand /\ [][NextRand]_vars

\* Math.random() is fair: a redraw leaves the missing range sooner or later
LiveRand == SpecRand /\ WF_vars(GetRandomApodDate) /\ WF_vars(RedrawOutside)
                     /\ WF_vars(RandomReturn)

----------------------------------------------------------------------------
(* What the claims speak of *)

\* a valid image path: its extension is exactly .jpg, .gif or .png
ValidImagePath(p) == p # Undefined /\ ExtName(p) \in ImageFormats

RandomMode == mode = Str_random \/ mode = Str_r
YesterdayMode == mode = Str_yesterday \/ mode = Str_y

\* the local calendar day (days since 1970-01-01) instant t falls on
LocalDay(t) == (t + tz) \div 24

FirstApodDay == DaysFromCivil(1995, 6, 16)
GapDays == DaysFromCivil(1995, 6, 17)..DaysFromCivil(1995, 6, 19)

IsAnchor(t) == t.name = "a"
Anchors(h) == SelectSeq(h, IsAnchor)

\* an integer string: an optional sign and then digits only
IsIntegerString(s) ==
    /\ s # Undefined
    /\ s # <<>>
    /\ LET body == IF s[1] \in {"-", "+"} THEN Tail(s) ELSE s
       IN  body # <<>> /\ \A i \in 1..Len(body) : body[i] \in Digits

IntegerOf(s) ==
    IF s[1] = "-" THEN 0 - ParseDigits(Tail(s), 0)
    ELSE IF s[1] = "+" THEN ParseDigits(Tail(s), 0)
    ELSE ParseDigits(s, 0)

----------------------------------------------------------------------------
\* C1 (as stated): at the end of every run, in every mode, the image was downloaded
\* and saved and the wallpaper call was made if and only if the extracted path is a
\* valid image path; and when the extraction gave none or another extension the run
\* made no download, no wallpaper call and ended with 'No image found.' and no error.
C1_AsStated ==
    pc = "exit" =>
        /\ (downloadStarted /\ saved /\ wallpaperCalled) <=> ValidImagePath(imagePath)
        /\ (resolved # Pending /\ ~ValidImagePath(resolved)) =>
               /\ ~downloadStarted /\ ~wallpaperCalled
               /\ stdout = "No image found." /\ failure = "none" /\ ~stderr

\* C1 (amended): saveImage is entered if and only if the path main checks is a valid
\* image path; the download is started only for a valid path; the wallpaper call is
\* made if and only if the path is valid and the image was saved; a run ends with
\* 'No image found.' exactly when nothing failed and the path is not valid, having
\* made no download and no wallpaper call; and in random mode an extraction that is
\* not a valid image path leads to another draw instead.
C1_Amended ==
    /\ [](/\ downloadStarted => ValidImagePath(imagePath) /\ imageFile # NoFile
          /\ imageFile # NoFile => ValidImagePath(imagePath)
          /\ wallpaperCalled => saved
          /\ pc = "exit" =>
                /\ (imageFile # NoFile) <=> ValidImagePath(imagePath)
                /\ wallpaperCalled <=> (ValidImagePath(imagePath) /\ saved)
                /\ stdout = "No image found."
                       <=> (failure = "none" /\ ~ValidImagePath(imagePath))
                /\ stdout = "No image found."
                       => ~downloadStarted /\ ~wallpaperCalled /\ ~stderr
                /\ (~RandomMode /\ resolved # Pending /\ ~ValidImagePath(resolved))
                       => stdout = "No image found.")
    /\ [][(pc = "until" /\ ~ValidImagePath(loopImagePath)) => pc' = "draw"]_vars

C1_Witness ==
    /\ pc = "exit" /\ ValidImagePath(imagePath)
    /\ downloadStarted /\ saved /\ wallpaperCalled /\ stdout = "Done"

\* C2: findImagePath resolves with undefined when the page has no or one <a> tag and
\* with the href of its second <a> tag when it has two or more, whatever follows;
\* and it resolves only at the end of the input.
C2_SecondAnchor ==
    /\ pc = "parse" => resolved = Pending
    /\ pc = "returned" =>
          /\ pos = Len(html) + 1
          /\ resolved = IF Len(Anchors(html)) < 2 THEN Undefined
                        ELSE Anchors(html)[2].href

C2_Witness ==
    /\ pc = "returned"
    /\ Len(Anchors(html)) >= 3
    /\ resolved = Anchors(html)[2].href
    /\ Anchors(html)[3].href # resolved

\* C3: the date getRandomApodDate returns is not one of 1995-06-17..1995-06-19, not
\* before 1995-06-16, and not after now (read in the claim's favour: its local
\* calendar day is not after the local calendar day of now).
C3_RandomDateInRange ==
    (pc = "fetch" /\ ret = "loop") =>
        /\ LocalDay(randomDate) \notin GapDays
        /\ LocalDay(randomDate) >= FirstApodDay
        /\ LocalDay(randomDate) <= LocalDay(now)

\* C4: no page name is made from a date before 1995-06-16, after now minus 6 hours,
\* or inside 1995-06-17..1995-06-19.
C4_PageDateInRange ==
    pageDate # NoDate =>
        /\ LocalDay(pageDate) >= FirstApodDay
        /\ pageDate <= now - 6
        /\ LocalDay(pageDate) \notin GapDays

\* C5: 'random' or 'r' takes the random loop; 'yesterday' or 'y' the date one day
\* ago; an integer string N the date N days ago; every other value, an absent one
\* too, the fixed page with no date; and outside random mode the page is fetched
\* once and scanned at most once.
C5_ModeResolution ==
    pc # "main" =>
        /\ RandomMode => ret # "main"
        /\ (~RandomMode /\ YesterdayMode) =>
               /\ ret = "main" /\ date = now - 24
               /\ page = GetPageNameForDate(now - 24, tz)
        /\ (~RandomMode /\ ~YesterdayMode /\ IsIntegerString(mode)) =>
               /\ ret = "main" /\ date = now - 24 * IntegerOf(mode)
               /\ page = GetPageNameForDate(now - 24 * IntegerOf(mode), tz)
        /\ (~RandomMode /\ ~YesterdayMode /\ ~IsIntegerString(mode)) =>
               /\ ret = "main" /\ date = NoDate /\ page = apodToday
        /\ (~RandomMode /\ pc = "exit") => fetches = 1 /\ scans <= 1

\* C6: a run in which a stage failed has reported it on the standard error stream
\* and ends with a non-zero exit code; a run with no failure ends with exit code 0.
C6_FailureExitCode ==
    pc = "exit" =>
        /\ failure # "none" => stderr /\ exitCode # 0
        /\ failure = "none" => ~stderr /\ exitCode = 0

\* C7: in random mode a date is drawn only at the start and after a complete fetch
\* and scan; after an iteration a new date is drawn exactly when its result is not
\* a valid image path; the loop is left only with a valid image path, the one just
\* scanned from the page of the date returned; and a random-mode run never ends with
\* 'No image found.'.
C7_RandomLoop ==
    /\ [][(pc' = "draw" /\ pc # "draw") =>
              \/ pc = "main"
              \/ pc = "until" /\ resolved # Pending /\ pos > Len(html)]_vars
    /\ [][pc = "until" => (pc' = "draw" <=> ~ValidImagePath(loopImagePath))]_vars
    /\ [][(pc = "until" /\ pc' = "check") =>
              /\ ValidImagePath(imagePath')
              /\ imagePath' = resolved
              /\ date' = randomDate /\ date' = pageDate
              /\ fetched = GetPageNameForDate(date', tz)]_vars
    /\ [](RandomMode => stdout # "No image found.")

C7_Witness ==
    /\ RandomMode /\ pc = "exit" /\ fetches = 2 /\ stdout = "Done"
    /\ date = randomDate /\ ValidImagePath(imagePath)

\* C8: after a failed page fetch, in every mode, the run goes to the top-level
\* catch and ends: no date is drawn, no page fetched or scanned, no download and no
\* wallpaper call is made, and the failure is logged.
C8_FetchFailureNotRetried ==
    /\ [](failure = "fetch" =>
              /\ pc \in {"catch", "exit"}
              /\ ~downloadStarted /\ ~wallpaperCalled
              /\ pc = "exit" => stderr)
    /\ [][failure = "fetch" =>
              /\ fetches' = fetches /\ scans' = scans
              /\ randomTime' = randomTime /\ pageDate' = pageDate
              /\ failure' = "fetch"]_vars

C8_Witness ==
    /\ RandomMode /\ failure = "fetch" /\ fetches = 2 /\ pc = "exit" /\ stderr

\* C9: in a dated mode the calendar day in the saved file's name is the calendar day
\* (two-digit year, month, day) in the name of the page that was fetched.
C9_FileNameMatchesPage ==
    (imageFile # NoFile /\ date # NoDate) =>
        /\ imageFile.year % 100 = fetched.year
        /\ imageFile.month = fetched.month
        /\ imageFile.day = fetched.day

\* C10: the redraw loop of getRandomApodDate terminates: from every state inside
\* the loop the function returns, under fair draws.
C10_RedrawTerminates == (pc = "while") ~> (pc = "fetch" /\ ret = "loop")

C10_Witness == pc = "fetch" /\ ret = "loop" /\ redrawn

====
